---- MODULE Spec2Model ----
(***************************************************************************)
(* LogicalAssert: the dispatch engine assert(value).with(handlers) of      *)
(* lib/LogicalAssert.ts and the schema evaluator evaluateDslCondition of   *)
(* lib/dsl.ts, as a state machine.  One dispatch call is one behaviour:    *)
(* the Error check, then one step per iteration of the loop over           *)
(* Object.keys(handlers), then the unknown fallback or the failure.        *)
(***************************************************************************)
EXTENDS Integers, Sequences, FiniteSets, TLC

(***************************************************************************)
(* Bounds of the model.                                                    *)
(***************************************************************************)
MaxRules == 3
MaxSchemaEntries == 2

(***************************************************************************)
(* JavaScript values.  Every value is a record of one shape: kind is the   *)
(* model's tag, n the numeric payload, s the string payload, b the boolean *)
(* payload and props the own properties of a composite value (property     *)
(* name -> value).  Values nested in props carry no props of their own:    *)
(* the schema evaluator never looks below the top level.                   *)
(***************************************************************************)
NoProps == [p \in {} |-> 0]

JsValue(kind, n, s, b, props) ==
    [kind |-> kind, n |-> n, s |-> s, b |-> b, props |-> props]

Num(n) == JsValue("number", n, "", FALSE, NoProps)
NaN == JsValue("nan", 0, "", FALSE, NoProps)
Str(s) == JsValue("string", 0, s, FALSE, NoProps)
Bool(b) == JsValue("boolean", 0, "", b, NoProps)
Null == JsValue("null", 0, "", FALSE, NoProps)
Undefined == JsValue("undefined", 0, "", FALSE, NoProps)
Obj(props) == JsValue("object", 0, "", FALSE, props)
\* the empty array []
EmptyArray == JsValue("array", 0, "", FALSE, [p \in {"length"} |-> Num(0)])
Func == JsValue("function", 0, "", FALSE, NoProps)
Sym(desc) == JsValue("symbol", 0, desc, FALSE, NoProps)
\* new Error(msg): message is its own property, name comes from Error.prototype
Err(msg) ==
    JsValue("error", 0, msg, FALSE,
            [p \in {"message", "name"} |-> IF p = "message" THEN Str(msg) ELSE Str("Error")])

\* typeof v
TypeOf(v) ==
    CASE v.kind = "number" -> "number"
      [] v.kind = "nan" -> "number"
      [] v.kind = "string" -> "string"
      [] v.kind = "boolean" -> "boolean"
      [] v.kind = "undefined" -> "undefined"
      [] v.kind = "function" -> "function"
      [] v.kind = "symbol" -> "symbol"
      [] OTHER -> "object"

\* v instanceof Error
InstanceOfError(v) == v.kind = "error"

\* Array.isArray(v)
IsArray(v) == v.kind = "array"

\* v == null (loose): null or undefined
IsNullish(v) == v.kind \in {"null", "undefined"}

\* prop in v, for a composite v.  props holds what the in operator sees, own or
\* inherited; no property name of the model is one that Object.prototype defines.
HasProperty(v, prop) == prop \in DOMAIN v.props

\* v[prop], for a property that is present
GetProperty(v, prop) == v.props[prop]

\* value === key, for a string key
StrictEqualsKey(v, key) == v.kind = "string" /\ v.s = key

(***************************************************************************)
(* Strings.  TLC's strings are atomic, so the spelling of every rule name  *)
(* of the model is given once, as a sequence of characters; Number(key)    *)
(* and the array-index test of Object.keys are computed from the           *)
(* characters.                                                             *)
(***************************************************************************)
Spell(k) ==
    CASE k = "42" -> <<"4", "2">>
      [] k = "7" -> <<"7">>
      [] k = "0" -> <<"0">>
      [] k = "041" -> <<"0", "4", "1">>
      [] k = "-1" -> <<"-", "1">>
      [] k = "" -> <<>>
      [] k = "number" -> <<"n", "u", "m", "b", "e", "r">>
      [] k = "string" -> <<"s", "t", "r", "i", "n", "g">>
      [] k = "boolean" -> <<"b", "o", "o", "l", "e", "a", "n">>
      [] k = "object" -> <<"o", "b", "j", "e", "c", "t">>
      [] k = "undefined" -> <<"u", "n", "d", "e", "f", "i", "n", "e", "d">>
      [] k = "function" -> <<"f", "u", "n", "c", "t", "i", "o", "n">>
      [] k = "symbol" -> <<"s", "y", "m", "b", "o", "l">>
      [] k = "null" -> <<"n", "u", "l", "l">>
      [] k = "true" -> <<"t", "r", "u", "e">>
      [] k = "false" -> <<"f", "a", "l", "s", "e">>
      [] k = "hello" -> <<"h", "e", "l", "l", "o">>
      [] k = "world" -> <<"w", "o", "r", "l", "d">>
      [] k = "known" -> <<"k", "n", "o", "w", "n">>
      [] k = "match" -> <<"m", "a", "t", "c", "h">>
      [] k = "process" -> <<"p", "r", "o", "c", "e", "s", "s">>
      [] k = "passed" -> <<"p", "a", "s", "s", "e", "d">>
      [] k = "Error" -> <<"E", "r", "r", "o", "r">>
      [] k = "unknown" -> <<"u", "n", "k", "n", "o", "w", "n">>
      [] k = "productInStock" ->
            <<"p", "r", "o", "d", "u", "c", "t", "I", "n", "S", "t", "o", "c", "k">>

Digits == <<"0", "1", "2", "3", "4", "5", "6", "7", "8", "9">>

IsDigit(c) == \E i \in 1..Len(Digits) : Digits[i] = c

DigitValue(c) == (CHOOSE i \in 1..Len(Digits) : Digits[i] = c) - 1

RECURSIVE DecimalValue(_)
DecimalValue(cs) ==
    IF cs = <<>> THEN 0
    ELSE 10 * DecimalValue(SubSeq(cs, 1, Len(cs) - 1)) + DigitValue(cs[Len(cs)])

AllDigits(cs) == cs # <<>> /\ \A i \in 1..Len(cs) : IsDigit(cs[i])

\* Number(key), for the decimal integer literals: the empty string is 0, an
\* optional sign then decimal digits is that integer, anything else is NaN.
NumberOfKey(key) ==
    LET cs == Spell(key) IN
    IF cs = <<>> THEN Num(0)
    ELSE IF AllDigits(cs) THEN Num(DecimalValue(cs))
    ELSE IF cs[1] \in {"-", "+"} /\ AllDigits(Tail(cs))
         THEN Num((IF cs[1] = "-" THEN -1 ELSE 1) * DecimalValue(Tail(cs)))
    ELSE NaN

\* isNaN(x)
IsNaN(x) == x.kind = "nan"

\* String(n): the decimal digits of an integer
RECURSIVE NatToString(_)
NatToString(n) ==
    IF n < 10 THEN Digits[n + 1]
    ELSE NatToString(n \div 10) \o Digits[(n % 10) + 1]

NumberToString(n) == IF n < 0 THEN "-" \o NatToString(0 - n) ELSE NatToString(n)

\* `${v}`: the string a template literal makes of v.  A symbol has none: the
\* conversion throws a TypeError, given here as ok = FALSE.
TemplateString(v) ==
    CASE v.kind = "number" -> [ok |-> TRUE, s |-> NumberToString(v.n)]
      [] v.kind = "nan" -> [ok |-> TRUE, s |-> "NaN"]
      [] v.kind = "string" -> [ok |-> TRUE, s |-> v.s]
      [] v.kind = "boolean" -> [ok |-> TRUE, s |-> IF v.b THEN "true" ELSE "false"]
      [] v.kind = "null" -> [ok |-> TRUE, s |-> "null"]
      [] v.kind = "undefined" -> [ok |-> TRUE, s |-> "undefined"]
      [] v.kind = "object" -> [ok |-> TRUE, s |-> "[object Object]"]
      [] v.kind = "array" -> [ok |-> TRUE, s |-> ""]
      [] v.kind = "function" -> [ok |-> TRUE, s |-> "() => {}"]
      [] v.kind = "error" -> [ok |-> TRUE, s |-> "Error: " \o v.s]
      [] v.kind = "symbol" -> [ok |-> FALSE, s |-> ""]

(***************************************************************************)
(* The rule set.  handlers is the sequence of entries [key, h] in the      *)
(* order the caller wrote them (keys distinct); Object.keys lists the keys *)
(* that are array indices first, in ascending numeric order, and then the  *)
(* other keys in the order of insertion.                                   *)
(***************************************************************************)
\* key is an array index: a canonical decimal numeral (String(Number(key)) is
\* key) below 2^32 - 1.  Every canonical numeral of at most nine digits is one;
\* longer numerals are outside the names of the model.
IsArrayIndex(key) ==
    LET cs == Spell(key) IN
    /\ AllDigits(cs)
    /\ Len(cs) < 10
    /\ NumberToString(DecimalValue(cs)) = key

RECURSIVE AscendingKeys(_)
AscendingKeys(S) ==
    IF S = {} THEN <<>>
    ELSE LET least == CHOOSE k \in S :
                        \A j \in S : DecimalValue(Spell(k)) <= DecimalValue(Spell(j))
         IN <<least>> \o AscendingKeys(S \ {least})

InsertedKeys(hs) == [i \in 1..Len(hs) |-> hs[i].key]

NotArrayIndex(key) == ~IsArrayIndex(key)

\* Object.keys(handlers)
ObjectKeys(hs) ==
    AscendingKeys({hs[i].key : i \in {j \in 1..Len(hs) : IsArrayIndex(hs[j].key)}})
        \o SelectSeq(InsertedKeys(hs), NotArrayIndex)

\* key in handlers
HasKey(hs, key) == \E i \in 1..Len(hs) : hs[i].key = key

(***************************************************************************)
(* Rule values.  hkind is the runtime shape of the entry: "function" (a    *)
(* plain handler), "object" (a non-null, non-array object) or "absent"     *)
(* (the entry does not exist).  An object has a condition property when    *)
(* hasCondition; exec is "function", "absent" or "other".                  *)
(***************************************************************************)
NoCondition == [ckind |-> "undefined", b |-> FALSE, schema |-> <<>>]
BoolCondition(b) == [ckind |-> "boolean", b |-> b, schema |-> <<>>]
SchemaCondition(schema) == [ckind |-> "schema", b |-> FALSE, schema |-> schema]
OtherCondition(ckind) == [ckind |-> ckind, b |-> FALSE, schema |-> <<>>]

PlainHandler ==
    [hkind |-> "function", hasCondition |-> FALSE, condition |-> NoCondition,
     exec |-> "absent"]
ConditionalHandler(condition, exec) ==
    [hkind |-> "object", hasCondition |-> TRUE, condition |-> condition,
     exec |-> exec]
AbsentHandler ==
    [hkind |-> "absent", hasCondition |-> FALSE, condition |-> NoCondition,
     exec |-> "absent"]

Rule(key, h) == [key |-> key, h |-> h]

\* handlers[key]
Lookup(hs, key) ==
    IF HasKey(hs, key)
    THEN hs[CHOOSE i \in 1..Len(hs) : hs[i].key = key].h
    ELSE AbsentHandler

\* schema tags: the literal true, or a string
TagTrue == [tkind |-> "true", s |-> ""]
Tag(s) == [tkind |-> "string", s |-> s]
SchemaEntry(prop, tag) == [prop |-> prop, tag |-> tag]

(***************************************************************************)
(* lib/dsl.ts: evaluateDslCondition(value, schema).                        *)
(***************************************************************************)
\* EntryHolds with the "undefined" tag tested loosely (propValue == null), which
\* lets null pass for undefined
EntryHoldsLooseUndefined(v, prop, typeOrCheck) ==
    IF ~HasProperty(v, prop) THEN typeOrCheck = Tag("undefined")
    ELSE LET propValue == GetProperty(v, prop) IN
         IF typeOrCheck.tkind = "true" THEN ~IsNullish(propValue)
         ELSE IF typeOrCheck.tkind = "string"
              THEN IF typeOrCheck.s = "undefined" THEN IsNullish(propValue)
                   ELSE IF IsNullish(propValue) THEN FALSE
                   ELSE IF typeOrCheck.s = "array" THEN IsArray(propValue)
                   ELSE TypeOf(propValue) = typeOrCheck.s
         ELSE FALSE

\* EntryHolds with the true tag tested by truthiness (!!propValue), which fails
\* 0, the empty string and false
EntryHoldsTruthy(v, prop, typeOrCheck) ==
    IF ~HasProperty(v, prop) THEN typeOrCheck = Tag("undefined")
    ELSE LET propValue == GetProperty(v, prop) IN
         IF typeOrCheck.tkind = "true"
         THEN /\ ~IsNullish(propValue)
              /\ propValue \notin {Num(0), Str(""), Bool(FALSE), NaN}
         ELSE IF typeOrCheck.tkind = "string"
              THEN IF typeOrCheck.s = "undefined" THEN TypeOf(propValue) = "undefined"
                   ELSE IF IsNullish(propValue) THEN FALSE
                   ELSE IF typeOrCheck.s = "array" THEN IsArray(propValue)
                   ELSE TypeOf(propValue) = typeOrCheck.s
         ELSE FALSE

\* EntryHolds without the test propValue == null, which lets null, whose typeof is
\* "object", pass the tag "object"
EntryHoldsNoNullGuard(v, prop, typeOrCheck) ==
    IF ~HasProperty(v, prop) THEN typeOrCheck = Tag("undefined")
    ELSE LET propValue == GetProperty(v, prop) IN
         IF typeOrCheck.tkind = "true" THEN ~IsNullish(propValue)
         ELSE IF typeOrCheck.tkind = "string"
              THEN IF typeOrCheck.s = "undefined" THEN TypeOf(propValue) = "undefined"
                   ELSE IF typeOrCheck.s = "array" THEN IsArray(propValue)
                   ELSE TypeOf(propValue) = typeOrCheck.s
         ELSE FALSE

\* the callback of Object.entries(schema).every(...)
EntryHolds(v, prop, typeOrCheck) ==
    IF ~HasProperty(v, prop) THEN typeOrCheck = Tag("undefined")
    ELSE LET propValue == GetProperty(v, prop) IN
         IF typeOrCheck.tkind = "true" THEN ~IsNullish(propValue)
         ELSE IF typeOrCheck.tkind = "string"
              THEN IF typeOrCheck.s = "undefined" THEN TypeOf(propValue) = "undefined"
                   ELSE IF IsNullish(propValue) THEN FALSE
                   ELSE IF typeOrCheck.s = "array" THEN IsArray(propValue)
                   ELSE TypeOf(propValue) = typeOrCheck.s
         ELSE FALSE

\* EvaluateDslCondition without the test for null, whose typeof is "object"
EvaluateDslConditionNoNullTest(v, schema) ==
    IF TypeOf(v) # "object" THEN FALSE
    ELSE \A i \in 1..Len(schema) : EntryHolds(v, schema[i].prop, schema[i].tag)

\* EvaluateDslCondition with Object.entries(schema).some(...), which asks one entry
\* to hold where the code asks every entry
EvaluateDslConditionSome(v, schema) ==
    IF TypeOf(v) # "object" \/ v.kind = "null" THEN FALSE
    ELSE \E i \in 1..Len(schema) : EntryHolds(v, schema[i].prop, schema[i].tag)

EvaluateDslCondition(v, schema) ==
    IF TypeOf(v) # "object" \/ v.kind = "null" THEN FALSE
    ELSE \A i \in 1..Len(schema) : EntryHolds(v, schema[i].prop, schema[i].tag)

(***************************************************************************)
(* lib/LogicalAssert.ts: assert(value).with(handlers).                     *)
(***************************************************************************)
\* ErrorPreempts with the subject tested by its type name, which is never "Error"
ErrorPreemptsByTypeName(hs, v) == Lookup(hs, "Error").hkind # "absent" /\ TypeOf(v) = "Error"

\* handlers.Error && value instanceof Error
ErrorPreempts(hs, v) == Lookup(hs, "Error").hkind # "absent" /\ InstanceOfError(v)

\* IsConditionalHandler as the earlier with() has it (lines 279-286): the entry
\* must also carry a callable exec
IsConditionalHandlerWithExec(h) ==
    h.hkind = "object" /\ h.hasCondition /\ h.exec = "function"

\* typeof handler === 'object' && handler !== null && !Array.isArray(handler)
\*   && 'condition' in handler
IsConditionalHandler(h) == h.hkind = "object" /\ h.hasCondition

\* ConditionMet with a condition of any other kind taken by its truthiness
\* (isMatch = !!condition): a number, a string and an array count as met
ConditionMetTruthy(v, condition) ==
    IF condition.ckind = "boolean" THEN condition.b
    ELSE IF condition.ckind = "schema" THEN EvaluateDslCondition(v, condition.schema)
    ELSE condition.ckind \in {"number", "string", "array"}

\* ConditionMet with isMatch set for every boolean condition, false included
ConditionMetAnyBoolean(v, condition) ==
    IF condition.ckind = "boolean" THEN TRUE
    ELSE IF condition.ckind = "schema" THEN EvaluateDslCondition(v, condition.schema)
    ELSE FALSE

\* isMatch: a boolean condition is used as it is, a schema object is handed to
\* evaluateDslCondition, any other condition leaves isMatch false
ConditionMet(v, condition) ==
    IF condition.ckind = "boolean" THEN condition.b
    ELSE IF condition.ckind = "schema" THEN EvaluateDslCondition(v, condition.schema)
    ELSE FALSE

\* PlainMatches by strict equality alone for names that are no type name, as
\* before the numeric clause: a number never equals a name
PlainMatchesNoNumericClause(v, key) ==
    IF TypeOf(v) = key THEN TRUE
    ELSE IF TypeOf(v) = "boolean" /\ key \in {"true", "false"} THEN v.b = (key = "true")
    ELSE IF v.kind = "null" /\ key = "null" THEN TRUE
    ELSE StrictEqualsKey(v, key)

\* PlainMatches with the null sentinel tested loosely (value == null), which
\* undefined passes as well
PlainMatchesLooseNull(v, key) ==
    IF TypeOf(v) = key THEN TRUE
    ELSE IF TypeOf(v) = "number" /\ ~IsNaN(NumberOfKey(key)) THEN NumberOfKey(key) = v
    ELSE IF TypeOf(v) = "boolean" /\ key \in {"true", "false"} THEN v.b = (key = "true")
    ELSE IF IsNullish(v) /\ key = "null" THEN TRUE
    ELSE StrictEqualsKey(v, key)

\* PlainMatches with null kept out of the type-name clause
\* (value !== null && typeof value === key)
PlainMatchesNullNotObject(v, key) ==
    IF v.kind # "null" /\ TypeOf(v) = key THEN TRUE
    ELSE IF TypeOf(v) = "number" /\ ~IsNaN(NumberOfKey(key)) THEN NumberOfKey(key) = v
    ELSE IF TypeOf(v) = "boolean" /\ key \in {"true", "false"} THEN v.b = (key = "true")
    ELSE IF v.kind = "null" /\ key = "null" THEN TRUE
    ELSE StrictEqualsKey(v, key)

\* PlainMatches with the boolean branch deciding by the key alone (key === 'true'),
\* the subject's value ignored
PlainMatchesBooleanByKey(v, key) ==
    IF TypeOf(v) = key THEN TRUE
    ELSE IF TypeOf(v) = "number" /\ ~IsNaN(NumberOfKey(key)) THEN NumberOfKey(key) = v
    ELSE IF TypeOf(v) = "boolean" /\ key \in {"true", "false"} THEN key = "true"
    ELSE IF v.kind = "null" /\ key = "null" THEN TRUE
    ELSE StrictEqualsKey(v, key)

\* the standard value-based matching of a function handler stored under key
PlainMatches(v, key) ==
    IF TypeOf(v) = key THEN TRUE
    ELSE IF TypeOf(v) = "number" /\ ~IsNaN(NumberOfKey(key)) THEN NumberOfKey(key) = v
    ELSE IF TypeOf(v) = "boolean" /\ key \in {"true", "false"} THEN v.b = (key = "true")
    ELSE IF v.kind = "null" /\ key = "null" THEN TRUE
    ELSE StrictEqualsKey(v, key)

\* 'unknown' in handlers && typeof handlers.unknown === 'function'
UnknownCallable(hs) == HasKey(hs, "unknown") /\ Lookup(hs, "unknown").hkind = "function"

NotUnknown(key) == key # "unknown"

\* Object.keys(handlers).filter(k => k !== 'unknown')
Candidates(hs) == SelectSeq(ObjectKeys(hs), NotUnknown)

\* array.join(', ')
RECURSIVE Join(_)
Join(names) ==
    IF names = <<>> THEN ""
    ELSE IF Len(names) = 1 THEN names[1]
    ELSE names[1] \o ", " \o Join(Tail(names))

\* the message handed to stdAssert
FailureText(v, hs, site) ==
    "\nAssertion failed for value: " \o TemplateString(v).s
        \o "\nValid values: " \o Join(Candidates(hs))
        \o "\nGot: " \o TemplateString(v).s \o " typeof " \o TypeOf(v)
        \o "\nAt: " \o TemplateString(site).s

\* Invoke without the argument: handler()
InvokeWithoutArgument(key, v) == [key |-> key, arg |-> Undefined]

\* handler(value): the call a handler receives
Invoke(key, v) == [key |-> key, arg |-> v]

(***************************************************************************)
(* What a dispatch call ends with.  A handler is the caller's code: what   *)
(* it returns or throws is identified by the handler and the argument it   *)
(* was given.                                                              *)
(***************************************************************************)
NoMessage == [text |-> "", candidates |-> <<>>]
Outcome(tag, by, arg, message) ==
    [tag |-> tag, by |-> by, arg |-> arg, message |-> message]
NoResult == Outcome("none", "", Undefined, NoMessage)
HandlerResult(call) == Outcome("handlerResult", call.key, call.arg, NoMessage)
HandlerError(call) == Outcome("handlerError", call.key, call.arg, NoMessage)
ImplicitTrue == Outcome("true", "", Undefined, NoMessage)
AssertionError(v, hs, site) ==
    Outcome("AssertionError", "", Undefined,
            [text |-> FailureText(v, hs, site), candidates |-> Candidates(hs)])
TypeError == Outcome("TypeError", "", Undefined, NoMessage)

\* how a handler's call completes
Completions == {"return", "throw"}

\* new Error().stack!.split('\n')[2]: the third line of the stack the host
\* captured, or undefined when the stack has fewer than three lines
CallSiteOf(lines) == IF Len(lines) >= 3 THEN Str(lines[3]) ELSE Undefined

FullStack == <<"Error", "    at Object.with (LogicalAssert.ts:119:24)", "    at main.ts:3:1">>
ShortStack == <<"Error">>
\* the empty string has one line, the empty one
EmptyStack == <<"">>
\* the host gives the Error no stack: the property is undefined.  A string has
\* at least one line, so no lines at all stands for no string.
NoStack == <<>>

\* new Error().stack is a string
StackAvailable(lines) == lines # NoStack

VARIABLES
    value,      \* the subject
    handlers,   \* the rule set, as inserted
    stack,      \* the lines of the stack trace the host captures for this call,
                \*   NoStack when it captures none
    pc,         \* "idle", "with", "loop", "fallback", "done"
    callSite,   \* the captured call-site line
    keys,       \* Object.keys(handlers), the order of the loop
    idx,        \* position of the loop in keys
    tested,     \* the keys whose entry the loop has examined, in order
    calls,      \* the handler calls made, in order
    outcome,    \* "running", "returned", "threw"
    result,     \* the value returned or the error thrown
    dslPc,      \* "idle", "call", "done"
    dslValue,   \* the value handed to evaluateDslCondition
    dslSchema,  \* the schema handed to evaluateDslCondition
    dslResult,  \* what evaluateDslCondition returned
    curriedPc,      \* the curried form assert(value)(handlers): "idle", "call",
                    \*   "loop", "fallback", "done"
    curriedIdx,     \* position of its loop in Object.keys(handlers)
    curriedCalls,   \* the handler calls it made, in order
    curriedResult,  \* the value it returned or the error it threw
    handlerReturns, \* what the caller's handlers return: "value", or "promise"
                    \*   for async handlers
    promiseState    \* the promise a handler returned: "pending", "fulfilled",
                    \*   "rejected"

dispatchVars == <<value, handlers, stack, pc, callSite, keys, idx, tested, calls, outcome, result>>
dslVars == <<dslPc, dslValue, dslSchema, dslResult>>
curriedVars == <<curriedPc, curriedIdx, curriedCalls, curriedResult>>
asyncVars == <<handlerReturns, promiseState>>
vars == <<value, handlers, stack, pc, callSite, keys, idx, tested, calls, outcome, result,
          dslPc, dslValue, dslSchema, dslResult,
          curriedPc, curriedIdx, curriedCalls, curriedResult,
          handlerReturns, promiseState>>

(***************************************************************************)
(* The subjects and rule sets a caller hands to a dispatch call.           *)
(***************************************************************************)
Subjects ==
    {Num(42), Num(0), Str("42"), Str("hello"), Str("Error"), Bool(TRUE), Null,
     Undefined, Obj([p \in {"name"} |-> Str("Bob")]), Obj(NoProps), Err("boom"),
     Sym("test"), Func}

Catalogue ==
    {Rule("42", PlainHandler),
     Rule("number", PlainHandler),
     Rule("hello", PlainHandler),
     Rule("object", PlainHandler),
     Rule("Error", PlainHandler),
     Rule("unknown", PlainHandler),
     Rule("7", ConditionalHandler(BoolCondition(TRUE), "function")),
     Rule("process", ConditionalHandler(BoolCondition(FALSE), "function")),
     Rule("match",
          ConditionalHandler(SchemaCondition(<<SchemaEntry("name", Tag("string"))>>),
                             "function")),
     Rule("passed", ConditionalHandler(BoolCondition(TRUE), "absent"))}

\* the object literals of at most n entries over a catalogue: keys are distinct
RuleSets(cat, n) ==
    {hs \in UNION {[1..k -> cat] : k \in 0..n} :
        \A i, j \in 1..Len(hs) : hs[i].key = hs[j].key => i = j}

DslIdle ==
    /\ dslPc = "idle"
    /\ dslValue = Undefined
    /\ dslSchema = <<>>
    /\ dslResult = FALSE

CurriedIdle ==
    /\ curriedPc = "idle"
    /\ curriedIdx = 0
    /\ curriedCalls = <<>>
    /\ curriedResult = NoResult

\* the handlers are synchronous: they return plain values
SyncHandlers ==
    /\ handlerReturns = "value"
    /\ promiseState = "pending"

\* a dispatch call about to run
InitWith(subjects, ruleSets, stacks) ==
    /\ value \in subjects
    /\ handlers \in ruleSets
    /\ stack \in stacks
    /\ pc = "with"
    /\ callSite = Undefined
    /\ keys = <<>>
    /\ idx = 0
    /\ tested = <<>>
    /\ calls = <<>>
    /\ outcome = "running"
    /\ result = NoResult
    /\ DslIdle
    /\ CurriedIdle
    /\ SyncHandlers

Init == InitWith(Subjects, RuleSets(Catalogue, MaxRules), {FullStack})

\* Return without the return: the handler is called and the call goes on
ReturnFallsThrough(call, completion) ==
    /\ calls' = Append(calls, call)
    /\ outcome' = outcome
    /\ result' = result
    /\ pc' = pc

\* Return inside try/catch: what the handler throws is caught and an error of the
\* engine is thrown in its place
ReturnWrapsError(call, completion) ==
    /\ calls' = Append(calls, call)
    /\ outcome' = IF completion = "return" THEN "returned" ELSE "threw"
    /\ result' = IF completion = "return" THEN HandlerResult(call) ELSE TypeError
    /\ pc' = "done"

\* Return with the handler's result awaited (return await handler(value)): a
\* dispatch call whose handler returned a promise does not end with it
ReturnAwaits(call, completion) ==
    /\ calls' = Append(calls, call)
    /\ IF handlerReturns = "promise" /\ completion = "return"
       THEN /\ outcome' = outcome
            /\ result' = result
            /\ pc' = "awaiting"
       ELSE /\ outcome' = IF completion = "return" THEN "returned" ELSE "threw"
            /\ result' = IF completion = "return" THEN HandlerResult(call)
                          ELSE HandlerError(call)
            /\ pc' = "done"

\* return handler(value): the call is made and the dispatch call ends with what
\* the handler returns or throws
Return(call, completion) ==
    /\ calls' = Append(calls, call)
    /\ outcome' = IF completion = "return" THEN "returned" ELSE "threw"
    /\ result' = IF completion = "return" THEN HandlerResult(call) ELSE HandlerError(call)
    /\ pc' = "done"

\* lines 115-117: the Error handler takes an Error instance before anything else
ErrorHandler ==
    /\ pc = "with"
    /\ ErrorPreempts(handlers, value)
    /\ IF Lookup(handlers, "Error").hkind = "function"
       THEN \E c \in Completions : Return(Invoke("Error", value), c)
       ELSE /\ outcome' = "threw"
            /\ result' = TypeError
            /\ pc' = "done"
            /\ calls' = calls
    /\ UNCHANGED <<value, handlers, stack, callSite, keys, idx, tested>>
    /\ UNCHANGED dslVars
    /\ UNCHANGED asyncVars
    /\ UNCHANGED curriedVars

\* lines 119-121: the call site is captured and the loop over the keys begins;
\* without a stack string, stack!.split throws a TypeError
EnterLoop ==
    /\ pc = "with"
    /\ ~ErrorPreempts(handlers, value)
    /\ IF StackAvailable(stack)
       THEN /\ callSite' = CallSiteOf(stack)
            /\ keys' = ObjectKeys(handlers)
            /\ idx' = 1
            /\ pc' = "loop"
            /\ UNCHANGED <<outcome, result>>
       ELSE /\ outcome' = "threw"
            /\ result' = TypeError
            /\ pc' = "done"
            /\ UNCHANGED <<callSite, keys, idx>>
    /\ UNCHANGED <<value, handlers, stack, tested, calls>>
    /\ UNCHANGED dslVars
    /\ UNCHANGED asyncVars
    /\ UNCHANGED curriedVars

\* SkipUnknown taking the unknown entry out of the caller's rule set
\* (delete handlers.unknown) as it passes it
SkipUnknownDeletes ==
    /\ pc = "loop"
    /\ idx <= Len(keys)
    /\ keys[idx] = "unknown"
    /\ idx' = idx + 1
    /\ handlers' = SelectSeq(handlers, LAMBDA r : r.key # "unknown")
    /\ UNCHANGED <<value, stack, pc, callSite, keys, tested, calls, outcome, result>>
    /\ UNCHANGED dslVars
    /\ UNCHANGED asyncVars
    /\ UNCHANGED curriedVars

\* line 122: if (key === 'unknown') continue
SkipUnknown ==
    /\ pc = "loop"
    /\ idx <= Len(keys)
    /\ keys[idx] = "unknown"
    /\ idx' = idx + 1
    /\ UNCHANGED <<value, handlers, stack, pc, callSite, keys, tested, calls, outcome, result>>
    /\ UNCHANGED dslVars
    /\ UNCHANGED asyncVars
    /\ UNCHANGED curriedVars

\* lines 127-150: a conditional handler
TestConditional ==
    /\ pc = "loop"
    /\ idx <= Len(keys)
    /\ keys[idx] # "unknown"
    /\ LET key == keys[idx]
           handler == Lookup(handlers, key)
       IN /\ IsConditionalHandler(handler)
          /\ tested' = Append(tested, key)
          /\ IF ConditionMet(value, handler.condition)
             THEN /\ IF handler.exec = "function"
                     THEN \E c \in Completions : Return(Invoke(key, value), c)
                     ELSE /\ outcome' = "returned"
                          /\ result' = ImplicitTrue
                          /\ pc' = "done"
                          /\ calls' = calls
                  /\ idx' = idx
             ELSE /\ idx' = idx + 1
                  /\ UNCHANGED <<pc, calls, outcome, result>>
    /\ UNCHANGED <<value, handlers, stack, callSite, keys>>
    /\ UNCHANGED dslVars
    /\ UNCHANGED asyncVars
    /\ UNCHANGED curriedVars

\* lines 153-174: a function handler, matched by type name or by value; an entry
\* that is neither a conditional handler nor a function is passed over
TestPlain ==
    /\ pc = "loop"
    /\ idx <= Len(keys)
    /\ keys[idx] # "unknown"
    /\ LET key == keys[idx]
           handler == Lookup(handlers, key)
       IN /\ ~IsConditionalHandler(handler)
          /\ tested' = Append(tested, key)
          /\ IF handler.hkind = "function" /\ PlainMatches(value, key)
             THEN /\ \E c \in Completions : Return(Invoke(key, value), c)
                  /\ idx' = idx
             ELSE /\ idx' = idx + 1
                  /\ UNCHANGED <<pc, calls, outcome, result>>
    /\ UNCHANGED <<value, handlers, stack, callSite, keys>>
    /\ UNCHANGED dslVars
    /\ UNCHANGED asyncVars
    /\ UNCHANGED curriedVars

\* line 175: the loop has run through every key
LoopEnd ==
    /\ pc = "loop"
    /\ idx > Len(keys)
    /\ pc' = "fallback"
    /\ UNCHANGED <<value, handlers, stack, callSite, keys, idx, tested, calls, outcome, result>>
    /\ UNCHANGED dslVars
    /\ UNCHANGED asyncVars
    /\ UNCHANGED curriedVars

\* lines 177-179: the unknown handler
Fallback ==
    /\ pc = "fallback"
    /\ UnknownCallable(handlers)
    /\ \E c \in Completions : Return(Invoke("unknown", value), c)
    /\ UNCHANGED <<value, handlers, stack, callSite, keys, idx, tested>>
    /\ UNCHANGED dslVars
    /\ UNCHANGED asyncVars
    /\ UNCHANGED curriedVars

\* lines 181-190: stdAssert(false, message) throws an AssertionError; building the
\* message of a symbol subject throws a TypeError before stdAssert is called
Fail ==
    /\ pc = "fallback"
    /\ ~UnknownCallable(handlers)
    /\ outcome' = "threw"
    /\ result' = IF TemplateString(value).ok
                 THEN AssertionError(value, handlers, callSite)
                 ELSE TypeError
    /\ pc' = "done"
    /\ UNCHANGED <<value, handlers, stack, callSite, keys, idx, tested, calls>>
    /\ UNCHANGED dslVars
    /\ UNCHANGED asyncVars
    /\ UNCHANGED curriedVars

Next ==
    \/ ErrorHandler
    \/ EnterLoop
    \/ SkipUnknown
    \/ TestConditional
    \/ TestPlain
    \/ LoopEnd
    \/ Fallback
    \/ Fail

Spec == Init /\ [][Next]_vars

(***************************************************************************)
(* Vocabulary of the properties.                                           *)
(***************************************************************************)
IsPrefix(a, b) == Len(a) <= Len(b) /\ \A i \in 1..Len(a) : a[i] = b[i]

\* the reserved names, which the specification keeps out of the ordinary scan
Reserved == {"unknown", "Error"}

\* the rule stored under key is satisfied by the subject
RuleSatisfied(key) ==
    LET h == Lookup(handlers, key) IN
    IF IsConditionalHandler(h) THEN ConditionMet(value, h.condition)
    ELSE h.hkind = "function" /\ PlainMatches(value, key)

\* positions, in the order of insertion, of the ordinary rules that are satisfied
SatisfiedPositions ==
    {i \in 1..Len(handlers) :
        handlers[i].key \notin Reserved /\ RuleSatisfied(handlers[i].key)}

\* the Error rule takes the call: it is a handler and the subject is an Error
ErrorRuleApplies ==
    Lookup(handlers, "Error").hkind = "function" /\ InstanceOfError(value)

Min(S) == CHOOSE i \in S : \A j \in S : i <= j

\* the call ended in the loop, at the key tested last
EndedInLoop == pc = "done" /\ tested # <<>> /\ idx <= Len(keys)

(***************************************************************************)
(* C1: the rules other than unknown are tested in the order in which the   *)
(* caller inserted them, also when numeric-looking names are mixed with    *)
(* others: at every moment the keys tested so far are the first keys of    *)
(* the rule set as inserted, and a call that ends in the loop ends at the  *)
(* first inserted ordinary rule that the subject satisfies.                *)
(***************************************************************************)
C1_TestedInInsertionOrder ==
    /\ IsPrefix(tested, SelectSeq(InsertedKeys(handlers), NotUnknown))
    /\ (EndedInLoop /\ SatisfiedPositions # {})
          => tested[Len(tested)] = handlers[Min(SatisfiedPositions)].key

(***************************************************************************)
(* C2: a dispatch call makes at most one handler call, makes none without  *)
(* ending, always has a next step while it is in the loop, and ends either *)
(* returning the result of the one handler it called (or the implicit true *)
(* of a satisfied conditional rule without exec, no handler called) or     *)
(* throwing.                                                               *)
(***************************************************************************)
C2_OneOutcome ==
    /\ Len(calls) <= 1
    /\ pc \in {"idle", "with", "loop", "fallback", "done"}
    /\ pc # "done" => (calls = <<>> /\ outcome = "running")
    /\ pc = "loop" => ENABLED (SkipUnknown \/ TestConditional \/ TestPlain \/ LoopEnd)
    /\ pc = "done" =>
          \/ /\ outcome = "returned"
             /\ Len(calls) = 1
             /\ result.tag = "handlerResult"
             /\ result.by = calls[1].key
          \/ /\ outcome = "returned"
             /\ calls = <<>>
             /\ result = ImplicitTrue
             /\ tested # <<>>
             /\ LET h == Lookup(handlers, tested[Len(tested)]) IN
                  /\ h.hasCondition
                  /\ h.exec # "function"
                  /\ RuleSatisfied(tested[Len(tested)])
          \/ /\ outcome = "threw"
             /\ result.tag \in {"handlerError", "AssertionError", "TypeError"}
             /\ result.tag = "handlerError" <=> Len(calls) = 1

\* a call that returned the implicit true of a conditional rule without exec
C2_Witness == pc = "done" /\ result = ImplicitTrue /\ Len(handlers) = MaxRules

(***************************************************************************)
(* C3: with an Error handler in the rule set and an Error instance as the  *)
(* subject, no key is ever tested, and the call ends with the one call     *)
(* Error(subject), whose result is returned, whatever else the rule set    *)
(* holds.                                                                  *)
(***************************************************************************)
C3_ErrorPreempts ==
    ErrorRuleApplies =>
        /\ tested = <<>>
        /\ pc \in {"with", "done"}
        /\ pc = "done" =>
              /\ calls = <<[key |-> "Error", arg |-> value]>>
              /\ outcome = "returned" =>
                    (result.tag = "handlerResult" /\ result.by = "Error"
                        /\ result.arg = value)

\* the Error handler returned although a conditional rule with condition true was
\* inserted before it and an object rule and an unknown rule are present
C3_Witness ==
    /\ pc = "done"
    /\ outcome = "returned"
    /\ InstanceOfError(value)
    /\ result.by = "Error"
    /\ Len(handlers) = 3
    /\ handlers[1].key = "7"
    /\ handlers[2].key \in {"object", "unknown"}
    /\ handlers[3].key = "Error"

(***************************************************************************)
(* C4: the reserved names are no ordinary candidates: the handler stored   *)
(* under Error is called only for a subject that is an Error instance, and *)
(* the handler stored under unknown is called only by the fallback, after  *)
(* the loop has run through every key.                                     *)
(***************************************************************************)
C4_ReservedNotCandidates ==
    \A i \in 1..Len(calls) :
        /\ calls[i].key = "Error" => InstanceOfError(value)
        /\ calls[i].key = "unknown" => (idx > Len(keys) /\ keys # <<>>)

(***************************************************************************)
(* C5: when no ordinary rule is satisfied (and the Error rule does not     *)
(* take the call) and unknown is callable, the call ends with the one call *)
(* unknown(subject), whose result is returned, wherever unknown was        *)
(* inserted; and unknown is never called when an ordinary rule is          *)
(* satisfied.                                                              *)
(***************************************************************************)
C5_UnknownFallback ==
    /\ (pc = "done" /\ UnknownCallable(handlers) /\ SatisfiedPositions = {}
            /\ ~ErrorRuleApplies)
          => /\ calls = <<[key |-> "unknown", arg |-> value]>>
             /\ outcome = "returned" =>
                   (result.tag = "handlerResult" /\ result.by = "unknown"
                       /\ result.arg = value)
    /\ \A i \in 1..Len(calls) :
          calls[i].key = "unknown" => SatisfiedPositions = {}

(***************************************************************************)
(* C6: when the rule set has no unknown rule and the subject satisfies no  *)
(* rule (no entry of the loop, and the Error rule does not take the call), *)
(* the call throws an AssertionError, no handler called, whose candidate   *)
(* list is exactly the rule names other than unknown and whose text        *)
(* carries the subject's string form and its type name.                    *)
(***************************************************************************)
C6_NoMatchError ==
    (/\ pc = "done"
     /\ ~HasKey(handlers, "unknown")
     /\ ~ErrorRuleApplies
     /\ \A i \in 1..Len(handlers) : ~RuleSatisfied(handlers[i].key))
        => /\ outcome = "threw"
           /\ calls = <<>>
           /\ result.tag = "AssertionError"
           /\ Len(result.message.candidates) = Len(handlers)
           /\ {result.message.candidates[i] : i \in 1..Len(result.message.candidates)}
                 = {handlers[i].key : i \in 1..Len(handlers)}
           /\ result.message.text = FailureText(value, handlers, callSite)

(***************************************************************************)
(* C7: when the rule set holds a plain rule named after the subject's      *)
(* exact value or after its type name, and no conditional rule inserted    *)
(* before the first such rule is satisfied and the Error rule does not     *)
(* take the call, the call ends with the one call of that rule's handler   *)
(* on the subject, whose result is returned.                               *)
(***************************************************************************)
\* key is the type name of v, or the text of the primitive value v
NamedAfter(v, key) ==
    \/ TypeOf(v) = key
    \/ v.kind \in {"number", "string", "boolean", "null"} /\ key = TemplateString(v).s

PlainNamedPositions ==
    {i \in 1..Len(handlers) :
        /\ handlers[i].h.hkind = "function"
        /\ handlers[i].key \notin Reserved
        /\ NamedAfter(value, handlers[i].key)}

C7_PlainRuleFires ==
    (/\ pc = "done"
     /\ PlainNamedPositions # {}
     /\ ~ErrorRuleApplies
     /\ \A j \in 1..Len(handlers) :
            (j < Min(PlainNamedPositions) /\ IsConditionalHandler(handlers[j].h))
                => ~RuleSatisfied(handlers[j].key))
        => /\ calls = <<[key |-> handlers[Min(PlainNamedPositions)].key, arg |-> value]>>
           /\ outcome = "returned" =>
                 (result.tag = "handlerResult" /\ result.arg = value
                     /\ result.by = handlers[Min(PlainNamedPositions)].key)

(***************************************************************************)
(* C8: every handler call is given exactly the subject, and a call that    *)
(* returns after calling a handler returns what that handler returned for  *)
(* the subject.                                                            *)
(***************************************************************************)
C8_SubjectInResultOut ==
    /\ \A i \in 1..Len(calls) : calls[i].arg = value
    /\ (pc = "done" /\ outcome = "returned" /\ calls # <<>>)
          => result = [tag |-> "handlerResult", by |-> calls[1].key, arg |-> value,
                       message |-> NoMessage]

\* the exec of a conditional rule with a schema returned for a composite subject
C8_Witness ==
    /\ pc = "done"
    /\ outcome = "returned"
    /\ calls = <<[key |-> "match", arg |-> value]>>
    /\ value.kind = "object"

(***************************************************************************)
(* Calls of the schema evaluator on its own, and dispatch calls whose      *)
(* rules are conditional rules with a schema.                              *)
(***************************************************************************)
\* what a property of a composite subject may hold
PropValues ==
    {Undefined, Null, Num(0), Str(""), Bool(FALSE), EmptyArray, Obj(NoProps), Func}

\* the objects with an optional property p of any value and an optional property q
DslObjects ==
    {Obj(f) : f \in
        UNION {[D -> PropValues] : D \in SUBSET {"p"}}
        \cup {[x \in {"q"} |-> v] : v \in {Str(""), Undefined}}
        \cup {[x \in {"p", "q"} |-> IF x = "p" THEN v ELSE w] :
                 v \in PropValues, w \in {Str(""), Undefined}}}

DslSubjects ==
    DslObjects \cup
    {EmptyArray, Err("boom"), Num(0), Str(""), Str("x"), Bool(FALSE), Bool(TRUE), Null,
     Undefined, Func, Sym("test")}

\* the tags of a schema entry: true, the documented type tags, a further typeof
\* name, a string that is no type name, and a value that is neither true nor a
\* string
MalformedTag == [tkind |-> "other", s |-> ""]
Tags ==
    {TagTrue, Tag("undefined"), Tag("string"), Tag("number"), Tag("boolean"),
     Tag("object"), Tag("array"), Tag("function"), Tag("product"), MalformedTag}

SchemaProps == {"p", "q", "length"}

\* the schemas of at most n entries: property names are distinct
Schemas(n) ==
    {sc \in UNION {[1..k -> {SchemaEntry(pr, t) : pr \in SchemaProps, t \in Tags}] :
                      k \in 0..n} :
        \A i, j \in 1..Len(sc) : sc[i].prop = sc[j].prop => i = j}

\* rule sets around one conditional rule whose condition is a schema
SchemaRuleSets ==
    LET around == {<<>>, <<Rule("unknown", PlainHandler)>>, <<Rule("Error", PlainHandler)>>,
                   <<Rule("object", PlainHandler)>>}
    IN UNION {{<<Rule("match", ConditionalHandler(SchemaCondition(sc), e))>> \o a,
               a \o <<Rule("match", ConditionalHandler(SchemaCondition(sc), e))>>} :
                 sc \in Schemas(1), e \in {"function", "absent"}, a \in around}

DispatchIdle ==
    /\ value = Undefined
    /\ handlers = <<>>
    /\ stack = FullStack
    /\ pc = "idle"
    /\ callSite = Undefined
    /\ keys = <<>>
    /\ idx = 0
    /\ tested = <<>>
    /\ calls = <<>>
    /\ outcome = "running"
    /\ result = NoResult

\* a call evaluateDslCondition(dslValue, dslSchema) about to run
InitEvaluate ==
    /\ DispatchIdle
    /\ dslPc = "call"
    /\ dslValue \in DslSubjects
    /\ dslSchema \in Schemas(MaxSchemaEntries)
    /\ dslResult = FALSE
    /\ CurriedIdle
    /\ SyncHandlers

InitDsl ==
    \/ InitEvaluate
    \/ InitWith(DslSubjects, SchemaRuleSets, {FullStack})

\* lib/dsl.ts lines 69-114: the call runs and returns
Evaluate ==
    /\ dslPc = "call"
    /\ dslResult' = EvaluateDslCondition(dslValue, dslSchema)
    /\ dslPc' = "done"
    /\ UNCHANGED <<dslValue, dslSchema>>
    /\ UNCHANGED dispatchVars
    /\ UNCHANGED curriedVars
    /\ UNCHANGED asyncVars

NextDsl ==
    \/ Evaluate
    \/ Next

SpecDsl == InitDsl /\ [][NextDsl]_vars

\* a composite value: typeof is "object" and the value is not null
IsComposite(v) == v.kind \in {"object", "array", "error"}

(***************************************************************************)
(* C9: the schema evaluator returns false for every subject that is not    *)
(* composite, whatever the schema, and true for every composite subject    *)
(* under the empty schema; so no conditional rule with a schema calls its  *)
(* exec, or yields its implicit true, for a subject that is not composite. *)
(***************************************************************************)
C9_NonCompositeFails ==
    /\ dslPc = "done" =>
          /\ ~IsComposite(dslValue) => dslResult = FALSE
          /\ (IsComposite(dslValue) /\ dslSchema = <<>>) => dslResult = TRUE
    /\ \A i \in 1..Len(calls) : calls[i].key = "match" => IsComposite(value)
    /\ (pc = "done" /\ result = ImplicitTrue) => IsComposite(value)

\* null under the empty schema: false
C9_Witness ==
    /\ dslPc = "done"
    /\ dslValue = Null
    /\ dslSchema = <<>>
    /\ dslResult = FALSE

C11_ExistenceTag ==
    (/\ dslPc = "done"
     /\ IsComposite(dslValue)
     /\ Len(dslSchema) = 1
     /\ dslSchema[1].tag = TagTrue)
        => dslResult = (/\ dslSchema[1].prop \in DOMAIN dslValue.props
                        /\ dslValue.props[dslSchema[1].prop].kind
                              \notin {"null", "undefined"})

\* p present with the falsy value 0: true
C11_Witness ==
    /\ dslPc = "done"
    /\ dslSchema = <<SchemaEntry("p", TagTrue)>>
    /\ dslValue = Obj([x \in {"p"} |-> Num(0)])
    /\ dslResult = TRUE

(***************************************************************************)
(* C12: for a composite subject and a schema of one entry: a property that *)
(* is absent fails every tag other than "undefined"; for a property that   *)
(* is present, the tag "array" holds exactly when the value is an array,   *)
(* and any other string tag except "undefined" fails for null and          *)
(* undefined and otherwise holds exactly when typeof of the value is the   *)
(* tag.                                                                    *)
(***************************************************************************)
C12_TypeTags ==
    (/\ dslPc = "done"
     /\ IsComposite(dslValue)
     /\ Len(dslSchema) = 1
     /\ dslSchema[1].tag # Tag("undefined"))
        => LET prop == dslSchema[1].prop
               tag == dslSchema[1].tag
           IN IF prop \notin DOMAIN dslValue.props THEN dslResult = FALSE
              ELSE LET held == dslValue.props[prop] IN
                   tag.tkind = "string" =>
                      IF tag.s = "array" THEN dslResult = (held.kind = "array")
                      ELSE IF held.kind \in {"null", "undefined"} THEN dslResult = FALSE
                      ELSE dslResult = (TypeOf(held) = tag.s)

\* p present with the value null under the tag "object": false
C12_Witness ==
    /\ dslPc = "done"
    /\ dslSchema = <<SchemaEntry("p", Tag("object"))>>
    /\ dslValue = Obj([x \in {"p"} |-> Null])
    /\ dslResult = FALSE

(***************************************************************************)
(* C13: a schema with an entry whose tag is none of true, "string",        *)
(* "number", "boolean", "object", "array", "undefined" evaluates to false  *)
(* for every subject.                                                      *)
(***************************************************************************)
RecognisedTags ==
    {TagTrue, Tag("string"), Tag("number"), Tag("boolean"), Tag("object"), Tag("array"),
     Tag("undefined")}

C13_UnrecognisedTagFails ==
    (/\ dslPc = "done"
     /\ \E i \in 1..Len(dslSchema) : dslSchema[i].tag \notin RecognisedTags)
        => dslResult = FALSE

(***************************************************************************)
(* Dispatch calls over conditional rules whose names are the subject's     *)
(* text or type name, next to plain rules of the same names.               *)
(***************************************************************************)
ConditionalSubjects == {Num(42), Str("hello"), Null, Err("boom")}

ConditionalCatalogue ==
    {Rule("process", ConditionalHandler(BoolCondition(FALSE), "function")),
     Rule("42", ConditionalHandler(BoolCondition(FALSE), "function")),
     Rule("number", ConditionalHandler(BoolCondition(FALSE), "function")),
     Rule("hello",
          ConditionalHandler(SchemaCondition(<<SchemaEntry("name", Tag("string"))>>),
                             "function")),
     Rule("passed", ConditionalHandler(BoolCondition(FALSE), "absent")),
     Rule("42", PlainHandler),
     Rule("number", PlainHandler),
     Rule("hello", PlainHandler),
     Rule("Error", PlainHandler),
     Rule("unknown", PlainHandler)}

InitConditional ==
    InitWith(ConditionalSubjects, RuleSets(ConditionalCatalogue, MaxRules), {FullStack})

SpecConditional == InitConditional /\ [][Next]_vars

\* the entry is a conditional rule, as the specification has it: an object with
\* a condition
HasConditionEntry(h) == h.hkind = "object" /\ h.hasCondition

\* the condition of a conditional rule holds of the subject: the boolean true, or
\* a schema the subject satisfies
ConditionHolds(h) ==
    \/ h.condition.ckind = "boolean" /\ h.condition.b
    \/ h.condition.ckind = "schema" /\ EvaluateDslCondition(value, h.condition.schema)

(***************************************************************************)
(* C14: once the scan tests a conditional rule whose condition holds (the  *)
(* boolean true, or a schema the subject satisfies), the call ends there:  *)
(* with the one call exec(subject), whose result is returned, when exec is *)
(* a function, and with the boolean true and no call when the rule has no  *)
(* exec; no later key is tested and unknown is not called.                 *)
(***************************************************************************)
C14_ConditionMetEnds ==
    \A i \in 1..Len(tested) :
        LET key == tested[i]
            h == Lookup(handlers, key)
        IN (HasConditionEntry(h) /\ ConditionHolds(h)) =>
              /\ i = Len(tested)
              /\ pc = "done"
              /\ IF h.exec = "function"
                 THEN /\ calls = <<[key |-> key, arg |-> value]>>
                      /\ outcome = "returned" =>
                            result = [tag |-> "handlerResult", by |-> key, arg |-> value,
                                      message |-> NoMessage]
                 ELSE /\ calls = <<>>
                      /\ outcome = "returned"
                      /\ result = ImplicitTrue

\* the exec of the conditional rule named 7, inserted first, returned although an
\* unknown rule is present
C14_Witness ==
    /\ pc = "done"
    /\ outcome = "returned"
    /\ calls = <<[key |-> "7", arg |-> value]>>
    /\ Len(handlers) >= 2
    /\ handlers[1].key = "7"
    /\ HasKey(handlers, "unknown")

(***************************************************************************)
(* C15: a conditional rule whose condition does not hold is never called,  *)
(* neither as exec nor as a plain rule by its name, also when its name is  *)
(* the subject's text or type name, and the scan goes on to the next key;  *)
(* so a rule set of a conditional rule whose condition does not hold, then *)
(* a plain rule named after the subject, then unknown, ends with the one   *)
(* call of the plain rule's handler (subject 42: the handler named 42).    *)
(***************************************************************************)
C15_ConditionUnmetSkipped ==
    /\ \A i \in 1..Len(calls) :
          LET h == Lookup(handlers, calls[i].key) IN
          HasConditionEntry(h) => ConditionHolds(h)
    /\ \A i \in 1..Len(tested) :
          LET h == Lookup(handlers, tested[i]) IN
          (HasConditionEntry(h) /\ ~ConditionHolds(h)) =>
              \E j \in 1..Len(keys) : keys[j] = tested[i] /\ idx > j
    /\ (/\ pc = "done"
        /\ Len(handlers) = 3
        /\ HasConditionEntry(handlers[1].h)
        /\ ~ConditionHolds(handlers[1].h)
        /\ handlers[2].h.hkind = "function"
        /\ NamedAfter(value, handlers[2].key)
        /\ handlers[3].key = "unknown"
        /\ ~ErrorRuleApplies)
          => calls = <<[key |-> handlers[2].key, arg |-> value]>>

\* subject 42 against a conditional rule with condition false, a plain rule named
\* 42 and unknown: the handler named 42 returned
C15_Witness ==
    /\ pc = "done"
    /\ outcome = "returned"
    /\ value = Num(42)
    /\ handlers = <<Rule("process", ConditionalHandler(BoolCondition(FALSE), "function")),
                    Rule("42", PlainHandler), Rule("unknown", PlainHandler)>>
    /\ calls = <<[key |-> "42", arg |-> value]>>

(***************************************************************************)
(* C16: when the handler a dispatch call invokes (a plain handler, an      *)
(* exec, unknown or Error) throws, the call throws that handler's error    *)
(* and nothing else: the call has ended, the handler that threw is the     *)
(* only one called, the scan has not moved past its key, and no step of    *)
(* the scan or of the fallback follows.                                    *)
(***************************************************************************)
C16_HandlerErrorPropagates ==
    /\ (outcome = "threw" /\ calls # <<>>)
          => /\ pc = "done"
             /\ Len(calls) = 1
             /\ result = [tag |-> "handlerError", by |-> calls[1].key, arg |-> value,
                          message |-> NoMessage]
             /\ calls[1].key # "unknown" => idx <= Len(keys)
             /\ (calls[1].key # "unknown" /\ tested # <<>>)
                   => tested[Len(tested)] = calls[1].key
             /\ ~ENABLED (SkipUnknown \/ TestConditional \/ TestPlain \/ LoopEnd \/ Fallback)
    /\ result.tag = "handlerError" => (outcome = "threw" /\ calls # <<>>)

\* the exec of a conditional rule threw, an unknown rule being present
C16_Witness ==
    /\ pc = "done"
    /\ outcome = "threw"
    /\ result.tag = "handlerError"
    /\ calls = <<[key |-> "7", arg |-> value]>>
    /\ HasKey(handlers, "unknown")

(***************************************************************************)
(* C17: the only error a dispatch call throws that no handler threw is the *)
(* AssertionError of the failed match, whatever the type of the subject    *)
(* (a symbol included); it is thrown with no handler called, after the     *)
(* scan has run through every key with no rule satisfied, and with no      *)
(* callable unknown in the rule set.                                       *)
(***************************************************************************)
C17_OnlyNoMatchError ==
    (outcome = "threw" /\ result.tag # "handlerError")
        => /\ result.tag = "AssertionError"
           /\ calls = <<>>
           /\ pc = "done"
           /\ idx > Len(keys)
           /\ ~UnknownCallable(handlers)
           /\ \A i \in 1..Len(handlers) :
                 handlers[i].key # "unknown" => ~RuleSatisfied(handlers[i].key)

(***************************************************************************)
(* The curried form assert(value)(handlers): the same scan without the     *)
(* Error check, and with a conditional handler recognised only when it     *)
(* carries a callable exec.  To compare the two forms the curried call     *)
(* runs on the subject and rule set of a with() call that has ended; a     *)
(* handler is deterministic: called again on the same argument it          *)
(* completes as it did before.                                             *)
(***************************************************************************)
\* typeof handler === 'object' && handler !== null && !Array.isArray(handler)
\*   && 'condition' in handler && 'exec' in handler
\*   && typeof handler.exec === 'function'
CurriedIsConditionalHandler(h) ==
    h.hkind = "object" /\ h.hasCondition /\ h.exec = "function"

\* the handler completes for call as it did in the with() call, if called there
HandlerCompletes(call, completion) ==
    (calls # <<>> /\ calls[1] = call)
        => completion = (IF outcome = "returned" THEN "return" ELSE "throw")

\* return handler(value) in the curried form
CurriedReturn(call, completion) ==
    /\ HandlerCompletes(call, completion)
    /\ curriedCalls' = Append(curriedCalls, call)
    /\ curriedResult' = IF completion = "return" THEN HandlerResult(call)
                        ELSE HandlerError(call)
    /\ curriedPc' = "done"

\* lines 66-68: the loop over the keys begins
CurriedEnterLoop ==
    /\ curriedPc = "call"
    /\ pc = "done"
    /\ IF StackAvailable(stack)
       THEN /\ curriedPc' = "loop"
            /\ curriedIdx' = 1
            /\ UNCHANGED curriedResult
       ELSE /\ curriedPc' = "done"
            /\ curriedResult' = TypeError
            /\ UNCHANGED curriedIdx
    /\ UNCHANGED curriedCalls
    /\ UNCHANGED dispatchVars
    /\ UNCHANGED dslVars
    /\ UNCHANGED asyncVars

\* line 69: if (key === 'unknown') continue
CurriedSkipUnknown ==
    /\ curriedPc = "loop"
    /\ curriedIdx <= Len(ObjectKeys(handlers))
    /\ ObjectKeys(handlers)[curriedIdx] = "unknown"
    /\ curriedIdx' = curriedIdx + 1
    /\ UNCHANGED <<curriedPc, curriedCalls, curriedResult>>
    /\ UNCHANGED dispatchVars
    /\ UNCHANGED dslVars
    /\ UNCHANGED asyncVars

\* lines 74-98: a conditional handler with a callable exec
CurriedTestConditional ==
    /\ curriedPc = "loop"
    /\ curriedIdx <= Len(ObjectKeys(handlers))
    /\ ObjectKeys(handlers)[curriedIdx] # "unknown"
    /\ LET key == ObjectKeys(handlers)[curriedIdx]
           handler == Lookup(handlers, key)
       IN /\ CurriedIsConditionalHandler(handler)
          /\ IF ConditionMet(value, handler.condition)
             THEN /\ \E c \in Completions : CurriedReturn(Invoke(key, value), c)
                  /\ curriedIdx' = curriedIdx
             ELSE /\ curriedIdx' = curriedIdx + 1
                  /\ UNCHANGED <<curriedPc, curriedCalls, curriedResult>>
    /\ UNCHANGED dispatchVars
    /\ UNCHANGED dslVars
    /\ UNCHANGED asyncVars

\* lines 101-122: a function handler; any other entry is passed over
CurriedTestPlain ==
    /\ curriedPc = "loop"
    /\ curriedIdx <= Len(ObjectKeys(handlers))
    /\ ObjectKeys(handlers)[curriedIdx] # "unknown"
    /\ LET key == ObjectKeys(handlers)[curriedIdx]
           handler == Lookup(handlers, key)
       IN /\ ~CurriedIsConditionalHandler(handler)
          /\ IF handler.hkind = "function" /\ PlainMatches(value, key)
             THEN /\ \E c \in Completions : CurriedReturn(Invoke(key, value), c)
                  /\ curriedIdx' = curriedIdx
             ELSE /\ curriedIdx' = curriedIdx + 1
                  /\ UNCHANGED <<curriedPc, curriedCalls, curriedResult>>
    /\ UNCHANGED dispatchVars
    /\ UNCHANGED dslVars
    /\ UNCHANGED asyncVars

\* line 123: the loop has run through every key
CurriedLoopEnd ==
    /\ curriedPc = "loop"
    /\ curriedIdx > Len(ObjectKeys(handlers))
    /\ curriedPc' = "fallback"
    /\ UNCHANGED <<curriedIdx, curriedCalls, curriedResult>>
    /\ UNCHANGED dispatchVars
    /\ UNCHANGED dslVars
    /\ UNCHANGED asyncVars

\* lines 125-127: the unknown handler
CurriedFallback ==
    /\ curriedPc = "fallback"
    /\ UnknownCallable(handlers)
    /\ \E c \in Completions : CurriedReturn(Invoke("unknown", value), c)
    /\ UNCHANGED curriedIdx
    /\ UNCHANGED dispatchVars
    /\ UNCHANGED dslVars
    /\ UNCHANGED asyncVars

\* lines 129-138: the failure, with the same message
CurriedFail ==
    /\ curriedPc = "fallback"
    /\ ~UnknownCallable(handlers)
    /\ curriedResult' = IF TemplateString(value).ok
                        THEN AssertionError(value, handlers, CallSiteOf(stack))
                        ELSE TypeError
    /\ curriedPc' = "done"
    /\ UNCHANGED <<curriedIdx, curriedCalls>>
    /\ UNCHANGED dispatchVars
    /\ UNCHANGED dslVars
    /\ UNCHANGED asyncVars

FormsSubjects == {Num(42), Str("hello"), Obj(NoProps), Err("boom"), Sym("test")}

FormsCatalogue ==
    {Rule("42", PlainHandler),
     Rule("object", PlainHandler),
     Rule("Error", PlainHandler),
     Rule("unknown", PlainHandler),
     Rule("7", ConditionalHandler(BoolCondition(TRUE), "function")),
     Rule("passed", ConditionalHandler(BoolCondition(TRUE), "absent"))}

\* both forms about to be called on the same subject and rule set
InitForms ==
    /\ value \in FormsSubjects
    /\ handlers \in RuleSets(FormsCatalogue, MaxRules)
    /\ stack = FullStack
    /\ pc = "with"
    /\ callSite = Undefined
    /\ keys = <<>>
    /\ idx = 0
    /\ tested = <<>>
    /\ calls = <<>>
    /\ outcome = "running"
    /\ result = NoResult
    /\ DslIdle
    /\ curriedPc = "call"
    /\ curriedIdx = 0
    /\ curriedCalls = <<>>
    /\ curriedResult = NoResult
    /\ SyncHandlers

NextForms ==
    \/ Next
    \/ CurriedEnterLoop
    \/ CurriedSkipUnknown
    \/ CurriedTestConditional
    \/ CurriedTestPlain
    \/ CurriedLoopEnd
    \/ CurriedFallback
    \/ CurriedFail

SpecForms == InitForms /\ [][NextForms]_vars

(***************************************************************************)
(* C18: assert(v).with(rules) and assert(v)(rules) do the same for every   *)
(* subject and every rule set, rule sets with an Error rule and with       *)
(* conditional rules without exec included: called on the same subject and *)
(* rule set they call the same handler and end with the same result or the *)
(* same error.                                                             *)
(***************************************************************************)
C18_FormsAgree ==
    (pc = "done" /\ curriedPc = "done")
        => /\ curriedCalls = calls
           /\ curriedResult = result

(***************************************************************************)
(* The examples of the module documentation of lib/LogicalAssert.ts.       *)
(***************************************************************************)
\* const data = { id: 1, type: "product", stock: 10 }
ProductData ==
    Obj([p \in {"id", "type", "stock"} |->
            IF p = "id" THEN Num(1)
            ELSE IF p = "type" THEN Str("product")
            ELSE Num(10)])

\* productInStock: { condition: { type: "product", stock: "number" }, exec }
ProductInStock ==
    Rule("productInStock",
         ConditionalHandler(
             SchemaCondition(<<SchemaEntry("type", Tag("product")),
                               SchemaEntry("stock", Tag("number"))>>),
             "function"))

ExampleSubjects == {ProductData, Str("world"), Str("hello"), Err("boom")}

ExampleCatalogue ==
    {ProductInStock,
     Rule("world", PlainHandler),
     Rule("object", PlainHandler),
     Rule("Error", PlainHandler),
     Rule("unknown", PlainHandler)}

InitExamples == InitWith(ExampleSubjects, RuleSets(ExampleCatalogue, MaxRules), {FullStack})

SpecExamples == InitExamples /\ [][Next]_vars

(***************************************************************************)
(* C19: the documentation's DSL example: the subject {id: 1, type:         *)
(* "product", stock: 10} against productInStock = {condition: {type:       *)
(* "product", stock: "number"}, exec} followed by unknown ends with the    *)
(* one call of productInStock's exec on the subject, not of unknown.       *)
(***************************************************************************)
C19_DocExampleFiresExec ==
    (/\ pc = "done"
     /\ value = ProductData
     /\ handlers = <<ProductInStock, Rule("unknown", PlainHandler)>>)
        => calls = <<[key |-> "productInStock", arg |-> value]>>

(***************************************************************************)
(* Dispatch calls used as assertions: boolean subjects against the rules   *)
(* named true and false.                                                   *)
(***************************************************************************)
BooleanSubjects == {Bool(TRUE), Bool(FALSE), Str("true"), Err("boom")}

BooleanCatalogue ==
    {Rule("true", PlainHandler),
     Rule("false", PlainHandler),
     Rule("boolean", PlainHandler),
     Rule("process", ConditionalHandler(BoolCondition(FALSE), "function")),
     Rule("Error", PlainHandler),
     Rule("unknown", PlainHandler)}

InitBoolean == InitWith(BooleanSubjects, RuleSets(BooleanCatalogue, MaxRules), {FullStack})

SpecBoolean == InitBoolean /\ [][Next]_vars

\* the rule name that spells the boolean subject
BooleanName(v) == IF v.b THEN "true" ELSE "false"

(***************************************************************************)
(* C20: for a boolean subject b, the plain rule named true is called only  *)
(* when b is true and the plain rule named false only when b is false; the *)
(* rule that spells b is the one called whenever no other ordinary rule of *)
(* the rule set is satisfied; and a rule set that holds only the rule of   *)
(* the opposite name, and no unknown, ends in the AssertionError of the    *)
(* failed match with no handler called.                                    *)
(***************************************************************************)
C20_BooleanAssertion ==
    value.kind = "boolean" =>
        /\ \A i \in 1..Len(calls) :
              calls[i].key \in {"true", "false"} => calls[i].key = BooleanName(value)
        /\ (/\ pc = "done"
            /\ Lookup(handlers, BooleanName(value)).hkind = "function"
            /\ \A j \in 1..Len(handlers) :
                  handlers[j].key \notin {BooleanName(value), "unknown"}
                      => ~RuleSatisfied(handlers[j].key))
              => calls = <<[key |-> BooleanName(value), arg |-> value]>>
        /\ (/\ pc = "done"
            /\ handlers = <<Rule(BooleanName(Bool(~value.b)), PlainHandler)>>)
              => /\ outcome = "threw"
                 /\ result.tag = "AssertionError"
                 /\ calls = <<>>

\* the subject false against the rule named true alone: the failure, no call
C20_Witness ==
    /\ pc = "done"
    /\ value = Bool(FALSE)
    /\ handlers = <<Rule("true", PlainHandler)>>
    /\ outcome = "threw"
    /\ result.tag = "AssertionError"
    /\ calls = <<>>

(***************************************************************************)
(* Dispatch calls under every stack the host may capture: a full trace, a  *)
(* trace of one line, the empty string, and none.                          *)
(***************************************************************************)
CallSiteSubjects == {Num(42), Str("hello"), Err("boom")}

CallSiteCatalogue ==
    {Rule("42", PlainHandler),
     Rule("string", PlainHandler),
     Rule("7", ConditionalHandler(BoolCondition(TRUE), "function")),
     Rule("process", ConditionalHandler(BoolCondition(FALSE), "function")),
     Rule("Error", PlainHandler),
     Rule("unknown", PlainHandler)}

Stacks == {FullStack, ShortStack, EmptyStack, NoStack}

InitCallSite == InitWith(CallSiteSubjects, RuleSets(CallSiteCatalogue, MaxRules), Stacks)

SpecCallSite == InitCallSite /\ [][Next]_vars

\* the rules other than unknown that the subject satisfies, in the order of the scan
SatisfiedKeys == SelectSeq(Candidates(handlers), RuleSatisfied)

(***************************************************************************)
(* C21: what a dispatch call does is decided by the subject and the rule   *)
(* set alone, whatever stack the host captured, an empty or missing one    *)
(* included: the Error rule if it applies, else the first satisfied rule   *)
(* of the scan, else a callable unknown, else the AssertionError of the    *)
(* failed match, and never another failure.                                *)
(***************************************************************************)
C21_CallSiteIrrelevant ==
    pc = "done" =>
        IF ErrorRuleApplies THEN calls = <<[key |-> "Error", arg |-> value]>>
        ELSE IF SatisfiedKeys # <<>>
             THEN IF Lookup(handlers, SatisfiedKeys[1]).hkind = "function"
                     \/ Lookup(handlers, SatisfiedKeys[1]).exec = "function"
                  THEN calls = <<[key |-> SatisfiedKeys[1], arg |-> value]>>
                  ELSE calls = <<>> /\ result = ImplicitTrue
        ELSE IF UnknownCallable(handlers)
             THEN calls = <<[key |-> "unknown", arg |-> value]>>
        ELSE /\ calls = <<>>
             /\ outcome = "threw"
             /\ result.tag = "AssertionError"

(***************************************************************************)
(* C22: no step of a dispatch call (the Error check, the scan, the         *)
(* fallback, the failure) and no call of the schema evaluator changes the  *)
(* subject or the rule set, or the value and schema handed to the          *)
(* evaluator: each is after every step what it was before it.              *)
(***************************************************************************)
C22_SubjectAndRulesUntouched ==
    [][/\ value' = value
       /\ handlers' = handlers
       /\ dslValue' = dslValue
       /\ dslSchema' = dslSchema]_vars

\* a call over a schema rule and an unknown rule that ran through the scan and
\* ended in the fallback
C22_Witness ==
    /\ pc = "done"
    /\ Len(handlers) = 2
    /\ handlers[1].key = "unknown"
    /\ handlers[2].key = "match"
    /\ tested = <<"match">>
    /\ calls = <<[key |-> "unknown", arg |-> value]>>
    /\ value.kind = "object"

(***************************************************************************)
(* Async handlers: what a handler returns is a promise, which settles      *)
(* some time after the handler returned it.                                *)
(***************************************************************************)
AsyncSubjects == {Num(42), Str("hello"), Err("boom")}

AsyncCatalogue ==
    {Rule("number", PlainHandler),
     Rule("string", PlainHandler),
     Rule("7", ConditionalHandler(BoolCondition(TRUE), "function")),
     Rule("process", ConditionalHandler(BoolCondition(FALSE), "function")),
     Rule("Error", PlainHandler),
     Rule("unknown", PlainHandler)}

InitAsync ==
    /\ value \in AsyncSubjects
    /\ handlers \in RuleSets(AsyncCatalogue, MaxRules)
    /\ stack = FullStack
    /\ pc = "with"
    /\ callSite = Undefined
    /\ keys = <<>>
    /\ idx = 0
    /\ tested = <<>>
    /\ calls = <<>>
    /\ outcome = "running"
    /\ result = NoResult
    /\ DslIdle
    /\ CurriedIdle
    /\ handlerReturns \in {"value", "promise"}
    /\ promiseState = "pending"

\* the promise a handler returned is fulfilled or rejected
Settle ==
    /\ handlerReturns = "promise"
    /\ calls # <<>>
    /\ outcome = "returned"
    /\ promiseState = "pending"
    /\ promiseState' \in {"fulfilled", "rejected"}
    /\ UNCHANGED handlerReturns
    /\ UNCHANGED dispatchVars
    /\ UNCHANGED dslVars
    /\ UNCHANGED curriedVars

NextAsync ==
    \/ Next
    \/ Settle

SpecAsync == InitAsync /\ [][NextAsync]_vars

(***************************************************************************)
(* C23: when the handler a dispatch call invokes returns a promise, the    *)
(* call has ended with that call and returned the handler's result itself, *)
(* the promise still pending; and when the promise is later rejected the   *)
(* dispatch call stays as it ended: the one handler called, its result     *)
(* returned, no further key tested, unknown not called, no error thrown.   *)
(***************************************************************************)
C23_PendingReturnedAsIs ==
    /\ (handlerReturns = "promise" /\ calls # <<>>)
          => /\ pc = "done"
             /\ Len(calls) = 1
             /\ outcome = "returned" =>
                   result = [tag |-> "handlerResult", by |-> calls[1].key, arg |-> value,
                             message |-> NoMessage]
    /\ promiseState # "pending"
          => /\ pc = "done"
             /\ outcome = "returned"
             /\ Len(calls) = 1
             /\ result.tag = "handlerResult"
             /\ result.by = calls[1].key
             /\ calls[1].key # "unknown" => idx <= Len(keys)
             /\ ~ENABLED (SkipUnknown \/ TestConditional \/ TestPlain \/ LoopEnd \/ Fallback)

\* the promise of the plain handler named number was rejected after the call had
\* returned it, an unknown rule being present
C23_Witness ==
    /\ promiseState = "rejected"
    /\ pc = "done"
    /\ outcome = "returned"
    /\ calls = <<[key |-> "number", arg |-> value]>>
    /\ HasKey(handlers, "unknown")

(***************************************************************************)
(* Dispatch calls over plain rules named after the runtime types and after *)
(* null, for subjects of every runtime type.                               *)
(***************************************************************************)
TypeNames == {"number", "string", "boolean", "object", "undefined", "function"}

TypeNameSubjects ==
    {Num(42), Str("number"), Str("null"), Str("hello"), Bool(TRUE), Null, Undefined,
     Obj(NoProps), Func, Err("boom")}

TypeNameCatalogue ==
    {Rule(name, PlainHandler) : name \in TypeNames}
        \cup {Rule("null", PlainHandler),
              Rule("process", ConditionalHandler(BoolCondition(FALSE), "function")),
              Rule("Error", PlainHandler),
              Rule("unknown", PlainHandler)}

InitTypeNames ==
    InitWith(TypeNameSubjects, RuleSets(TypeNameCatalogue, MaxRules), {FullStack})

SpecTypeNames == InitTypeNames /\ [][Next]_vars

(***************************************************************************)
(* C24: a plain rule named after a runtime type is a type guard: the       *)
(* handler named number, string, boolean, object, undefined or function is *)
(* called only with a subject whose typeof is that name; the string        *)
(* subject "number" does not call the handler named number.                *)
(***************************************************************************)
C24_TypeNameIsGuard ==
    \A i \in 1..Len(calls) :
        calls[i].key \in TypeNames => TypeOf(calls[i].arg) = calls[i].key

(***************************************************************************)
(* C26: with the plain rules named null and undefined, in either order, a  *)
(* null subject calls the handler named null and no other, and an          *)
(* undefined subject calls the handler named undefined and no other.       *)
(***************************************************************************)
C26_NullAndUndefinedApart ==
    (/\ pc = "done"
     /\ value \in {Null, Undefined}
     /\ handlers \in {<<Rule("null", PlainHandler), Rule("undefined", PlainHandler)>>,
                      <<Rule("undefined", PlainHandler), Rule("null", PlainHandler)>>})
        => calls = <<[key |-> IF value = Null THEN "null" ELSE "undefined", arg |-> value]>>

\* undefined against the rules null then undefined: the handler named undefined
C26_Witness ==
    /\ pc = "done"
    /\ value = Undefined
    /\ handlers = <<Rule("null", PlainHandler), Rule("undefined", PlainHandler)>>
    /\ tested = <<"null", "undefined">>
    /\ calls = <<[key |-> "undefined", arg |-> Undefined]>>

(***************************************************************************)
(* C27: typeof null is "object", so a null subject satisfies the plain     *)
(* rule named object: against the rules object then null, a null subject   *)
(* calls the handler named object, and the rule named null is not reached. *)
(***************************************************************************)
C27_NullIsObject ==
    (/\ pc = "done"
     /\ value = Null
     /\ handlers = <<Rule("object", PlainHandler), Rule("null", PlainHandler)>>)
        => /\ calls = <<[key |-> "object", arg |-> Null]>>
           /\ tested = <<"object">>

\* the handler named object returned for the null subject
C27_Witness ==
    /\ pc = "done"
    /\ outcome = "returned"
    /\ value = Null
    /\ handlers = <<Rule("object", PlainHandler), Rule("null", PlainHandler)>>
    /\ result.by = "object"

(***************************************************************************)
(* Dispatch calls of number and string subjects over plain rules with      *)
(* numeric names and other names.                                          *)
(***************************************************************************)
NumericNameSubjects ==
    {Num(42), Num(41), Num(0), Num(0 - 1), Str("42"), Str("041"), Str("0"), Str("-1"),
     Str("hello"), Str("Error"), Str("number"), Err("boom")}

NumericNameCatalogue ==
    {Rule("42", PlainHandler),
     Rule("041", PlainHandler),
     Rule("0", PlainHandler),
     Rule("-1", PlainHandler),
     Rule("hello", PlainHandler),
     Rule("number", PlainHandler),
     Rule("process", ConditionalHandler(BoolCondition(FALSE), "function")),
     Rule("Error", PlainHandler),
     Rule("unknown", PlainHandler)}

InitNumericNames ==
    InitWith(NumericNameSubjects, RuleSets(NumericNameCatalogue, MaxRules), {FullStack})

SpecNumericNames == InitNumericNames /\ [][Next]_vars

\* the numeric names of the rules and the numbers they spell
NumericNames == {"42", "041", "0", "-1"}
NumberSpelled(name) ==
    CASE name = "42" -> 42
      [] name = "041" -> 41
      [] name = "0" -> 0
      [] name = "-1" -> 0 - 1

(***************************************************************************)
(* C25: a plain rule with a numeric name is satisfied by the number the    *)
(* name spells and by the string that is the name, and by no other number  *)
(* or string; and a plain rule named K, K not unknown, is satisfied by the *)
(* string K.  For a number or string subject against such a rule alone:    *)
(* the handler is called exactly in those cases.                           *)
(***************************************************************************)
C25_NumericAndStringNames ==
    /\ (/\ pc = "done"
        /\ Len(handlers) = 1
        /\ handlers[1].key \in NumericNames
        /\ value.kind \in {"number", "string"})
          => (calls = <<[key |-> handlers[1].key, arg |-> value]>>
                <=> \/ value = Num(NumberSpelled(handlers[1].key))
                    \/ value = Str(handlers[1].key))
    /\ (/\ pc = "done"
        /\ Len(handlers) = 1
        /\ handlers[1].h.hkind = "function"
        /\ handlers[1].key # "unknown"
        /\ value = Str(handlers[1].key))
          => calls = <<[key |-> handlers[1].key, arg |-> value]>>
    /\ \A i \in 1..Len(calls) :
          (calls[i].key \in NumericNames /\ value.kind \in {"number", "string"})
              => \/ value = Num(NumberSpelled(calls[i].key))
                 \/ value = Str(calls[i].key)

\* the number 41 called the handler named 041
C25_Witness ==
    /\ pc = "done"
    /\ value = Num(41)
    /\ handlers = <<Rule("041", PlainHandler)>>
    /\ calls = <<[key |-> "041", arg |-> value]>>

(***************************************************************************)
(* Dispatch calls over conditional rules whose condition is neither a      *)
(* boolean nor a schema object: 1, "yes", an array, null, undefined.       *)
(***************************************************************************)
OtherConditionKinds == {"number", "string", "array", "null", "undefined"}

OtherConditionSubjects == {Num(42), Str("hello"), Err("boom")}

OtherConditionCatalogue ==
    {Rule("process", ConditionalHandler(OtherCondition(ck), "function")) :
        ck \in OtherConditionKinds}
    \cup {Rule("hello", ConditionalHandler(OtherCondition(ck), "absent")) :
        ck \in OtherConditionKinds}
    \cup {Rule("7", ConditionalHandler(BoolCondition(TRUE), "function")),
          Rule("42", PlainHandler),
          Rule("Error", PlainHandler),
          Rule("unknown", PlainHandler)}

InitOtherConditions ==
    InitWith(OtherConditionSubjects, RuleSets(OtherConditionCatalogue, MaxRules),
             {FullStack})

SpecOtherConditions == InitOtherConditions /\ [][Next]_vars

\* the entry is a conditional rule whose condition is neither a boolean nor a
\* schema object
HasOtherCondition(h) ==
    HasConditionEntry(h) /\ h.condition.ckind \notin {"boolean", "schema"}

(***************************************************************************)
(* C28: a conditional rule whose condition is neither a boolean nor a      *)
(* schema object (a number, a string, an array, null, undefined, truthy or *)
(* not) is never met: its exec is never called, the call never returns the *)
(* implicit true for it, and the scan goes on past it.                     *)
(***************************************************************************)
C28_OtherConditionNeverMet ==
    /\ \A i \in 1..Len(calls) : ~HasOtherCondition(Lookup(handlers, calls[i].key))
    /\ (pc = "done" /\ result = ImplicitTrue)
          => ~HasOtherCondition(Lookup(handlers, tested[Len(tested)]))
    /\ \A i \in 1..Len(tested) :
          HasOtherCondition(Lookup(handlers, tested[i]))
              => \E j \in 1..Len(keys) : keys[j] = tested[i] /\ idx > j

\* a rule with the condition 1 and an exec was passed over and unknown was called
C28_Witness ==
    /\ pc = "done"
    /\ handlers = <<Rule("process", ConditionalHandler(OtherCondition("number"), "function")),
                    Rule("unknown", PlainHandler)>>
    /\ tested = <<"process">>
    /\ calls = <<[key |-> "unknown", arg |-> value]>>

(***************************************************************************)
(* Dispatch calls over rule sets whose unknown entry is not a function: a  *)
(* conditional object with condition true and an exec.                     *)
(***************************************************************************)
UnknownEntrySubjects == {Num(42), Str("hello"), Sym("test"), Err("boom")}

UnknownEntryCatalogue ==
    {Rule("unknown", ConditionalHandler(BoolCondition(TRUE), "function")),
     Rule("unknown", PlainHandler),
     Rule("42", PlainHandler),
     Rule("process", ConditionalHandler(BoolCondition(FALSE), "function")),
     Rule("Error", PlainHandler)}

InitUnknownEntry ==
    InitWith(UnknownEntrySubjects, RuleSets(UnknownEntryCatalogue, MaxRules), {FullStack})

SpecUnknownEntry == InitUnknownEntry /\ [][Next]_vars

\* the rule set without its unknown entry
WithoutUnknown(hs) == SelectSeq(hs, LAMBDA r : r.key # "unknown")

(***************************************************************************)
(* C29: an unknown entry that is not callable is never called and never    *)
(* tested as a conditional rule; when no ordinary rule is satisfied, the   *)
(* call throws the AssertionError of the failed match, the very one it     *)
(* throws for the rule set without the unknown entry, and its candidate    *)
(* list does not hold the name unknown.                                    *)
(***************************************************************************)
C29_UnknownNotCallable ==
    (HasKey(handlers, "unknown") /\ Lookup(handlers, "unknown").hkind # "function")
        => /\ \A i \in 1..Len(calls) : calls[i].key # "unknown"
           /\ \A i \in 1..Len(tested) : tested[i] # "unknown"
           /\ (/\ pc = "done"
               /\ ~ErrorRuleApplies
               /\ \A i \in 1..Len(handlers) :
                     handlers[i].key \notin Reserved => ~RuleSatisfied(handlers[i].key))
                 => /\ outcome = "threw"
                    /\ calls = <<>>
                    /\ result = AssertionError(value, WithoutUnknown(handlers), callSite)
                    /\ \A i \in 1..Len(result.message.candidates) :
                          result.message.candidates[i] # "unknown"

\* the schema with its entries in the opposite order
Reversed(schema) == [i \in 1..Len(schema) |-> schema[Len(schema) + 1 - i]]

\* the schema of the one entry
OneEntry(entry) == <<entry>>

(***************************************************************************)
(* C30: for a composite subject the result of a schema evaluation is the   *)
(* conjunction of the results of evaluating the subject against each entry *)
(* on its own; it is the result for the entries in the opposite order, and *)
(* a schema of which some leading part evaluates to false evaluates to     *)
(* false.                                                                  *)
(***************************************************************************)
C30_SchemaIsConjunction ==
    (dslPc = "done" /\ IsComposite(dslValue))
        => /\ dslResult = (\A i \in 1..Len(dslSchema) :
                              EvaluateDslCondition(dslValue, OneEntry(dslSchema[i])))
           /\ dslResult = EvaluateDslCondition(dslValue, Reversed(dslSchema))
           /\ \A k \in 0..Len(dslSchema) :
                 ~EvaluateDslCondition(dslValue, SubSeq(dslSchema, 1, k)) => ~dslResult

C30_Witness ==
    /\ dslPc = "done"
    /\ IsComposite(dslValue)
    /\ Len(dslSchema) = 2
    /\ EvaluateDslCondition(dslValue, OneEntry(dslSchema[1]))
    /\ ~EvaluateDslCondition(dslValue, OneEntry(dslSchema[2]))
    /\ ~dslResult

====
